---- MODULE Spec2Model ----
(***************************************************************************)
(* fcom: the directory walker (get_all_files, create_folder_tree), the     *)
(* template engine (CombinerTemplate) and the aggregation run              *)
(* (process_folder), with the three subcommands of main.                   *)
(*                                                                         *)
(* Text is a sequence of tokens.  A file or directory name is a sequence   *)
(* of one-character strings, a path is a sequence of names.  The           *)
(* box-drawing connectors of the tree diagram are written in ASCII:        *)
(*   "|--" stands for U+251C U+2500 U+2500, "+--" for U+2514 U+2500 U+2500 *)
(*   and "|" for U+2502.  The backquote of the markdown templates is       *)
(* written as an apostrophe.                                               *)
(***************************************************************************)
EXTENDS Naturals, Integers, Sequences, FiniteSets, TLC

VARIABLES
    fs,                     \* the entries below the folder: [path, dir]
    root_is_dir,            \* folder_path.is_dir()
    unlistable,             \* directories on which fs::read_dir fails
    unreadable,             \* files on which fs::read_to_string fails
    out_writable,           \* whether fs::write to the output succeeds
    command,                \* the subcommand main was started with
    extensions,             \* -e: [none, list]
    ignore_patterns,        \* the ignore tokens handed to the walker
    add_line_numbers,       \* -l
    mode,                   \* -m
    custom_output_template, \* "none", "ok" or "unreadable"
    custom_file_template,   \* "none", "ok" or "unreadable"
    pc,                     \* the position of the running process
    exit_code,              \* -1 while running, then the exit status
    all_files,              \* the Vec returned by the last get_all_files
    folder_tree,            \* the String returned by create_folder_tree
    files_included,         \* process_folder's bullet list
    output_template,        \* the outer template
    file_template,          \* the inner template
    all_file_contents,      \* the rendered inner blocks
    idx,                    \* the position of the loop over all_files
    faults,                 \* how many times the tree changed under the run
    tpl_fields,             \* the field mapping handed to a template
    rendered,               \* the texts that template has been rendered to
    output,                 \* the output destination: [writes, content]
    console                 \* the messages printed, oldest first

vars == <<fs, root_is_dir, unlistable, unreadable, out_writable, command,
          extensions, ignore_patterns, add_line_numbers, mode,
          custom_output_template, custom_file_template, pc, exit_code,
          all_files, folder_tree, files_included, output_template,
          file_template, all_file_contents, idx, faults, tpl_fields, rendered,
          output, console>>

(***************************************************************************)
(* Bounds of the model.                                                    *)
(***************************************************************************)
MaxEntries == 4
MaxChildren == 3

(***************************************************************************)
(* Strings and paths.                                                      *)
(***************************************************************************)
\* The characters that occur in names, in ascending byte order.
Alphabet == <<".", "/", "a", "b", "c", "d", "m", "r", "s", "t", "x">>

Ord(c) == CHOOSE i \in DOMAIN Alphabet : Alphabet[i] = c

Min(a, b) == IF a < b THEN a ELSE b

\* str::cmp / OsStr::cmp: byte-wise lexicographic order.
StrLess(s, t) ==
    \E k \in 0..Min(Len(s), Len(t)) :
        /\ \A i \in 1..k : s[i] = t[i]
        /\ \/ k = Len(s) /\ k < Len(t)
           \/ k < Len(s) /\ k < Len(t) /\ Ord(s[k + 1]) < Ord(t[k + 1])

\* Lexicographic order on sequences of components, each compared byte-wise.
PathLessByComponents(p, q) ==
    \E k \in 0..Min(Len(p), Len(q)) :
        /\ \A i \in 1..k : p[i] = q[i]
        /\ \/ k = Len(p) /\ k < Len(q)
           \/ k < Len(p) /\ k < Len(q) /\ StrLess(p[k + 1], q[k + 1])

RECURSIVE Join(_, _)
Join(parts, sep) ==
    IF parts = <<>> THEN <<>>
    ELSE IF Len(parts) = 1 THEN parts[1]
    ELSE parts[1] \o sep \o Join(Tail(parts), sep)

\* Path::display: the components joined by the separator.
Display(p) == Join(p, <<"/">>)

\* The order of the paths written out as one string each.
PathLessAsString(p, q) == StrLess(Display(p), Display(q))

\* The order Vec<PathBuf>::sort uses: Path's Ord compares the paths
\* component by component, each component byte-wise.
PathLess(p, q) == PathLessByComponents(p, q)

file_name(path) == path[Len(path)]

strip_prefix(path, base) == SubSeq(path, Len(base) + 1, Len(path))

None == [some |-> FALSE, v |-> <<>>]
Some(x) == [some |-> TRUE, v |-> x]

LastDot(s) ==
    IF \E i \in DOMAIN s : s[i] = "."
    THEN CHOOSE i \in DOMAIN s :
            s[i] = "." /\ \A j \in DOMAIN s : j > i => s[j] # "."
    ELSE 0

\* Path::extension: the part of the file name after its last dot; none
\* when there is no dot or when the only dot is the first character.
extension(path) ==
    LET name == file_name(path)
        d == LastDot(name)
    IN  IF name = <<".", ".">> \/ d = 0 \/ d = 1 THEN None
        ELSE Some(SubSeq(name, d + 1, Len(name)))

RECURSIVE trim_start_matches(_, _)
trim_start_matches(s, c) ==
    IF s # <<>> /\ Head(s) = c THEN trim_start_matches(Tail(s), c) ELSE s

ends_with(s, suffix) ==
    /\ Len(suffix) <= Len(s)
    /\ SubSeq(s, Len(s) - Len(suffix) + 1, Len(s)) = suffix

contains(list, x) == \E i \in DOMAIN list : list[i] = x

(***************************************************************************)
(* The directory tree.                                                     *)
(***************************************************************************)
RootPath == << <<"r">> >>

Dir(p) == [path |-> RootPath \o p, dir |-> TRUE]
File(p) == [path |-> RootPath \o p, dir |-> FALSE]

n_a == <<"a">>
n_t == <<"t">>
n_a_rs == <<"a", ".", "r", "s">>
n_b_md == <<"b", ".", "m", "d">>
n_c_rs == <<"c", ".", "r", "s">>
n_xrs == <<"x", "r", "s">>

\* The entries a tree of the model is made of.
Candidates ==
    { Dir(<<n_a>>), Dir(<<n_t>>), Dir(<<n_a, n_t>>),
      File(<<n_a_rs>>), File(<<n_b_md>>), File(<<n_xrs>>),
      File(<<n_a, n_b_md>>), File(<<n_a, n_c_rs>>),
      File(<<n_t, n_a_rs>>), File(<<n_a, n_t, n_a_rs>>) }

Parent(p) == SubSeq(p, 1, Len(p) - 1)

IsTree(T) ==
    \A e \in T :
        Parent(e.path) = RootPath
        \/ \E d \in T : d.dir /\ d.path = Parent(e.path)

NumChildren(T, dir) == Cardinality({ e \in T : Parent(e.path) = dir })

Trees(n) ==
    { T \in SUBSET Candidates :
        /\ Cardinality(T) <= n
        /\ IsTree(T)
        /\ NumChildren(T, RootPath) <= MaxChildren
        /\ \A d \in T : NumChildren(T, d.path) <= MaxChildren }

\* -e: absent, or a list of extensions with or without the leading dot.
ExtChoices ==
    { [none |-> TRUE, list |-> <<>>],
      [none |-> FALSE, list |-> << <<"r", "s">> >>],
      [none |-> FALSE, list |-> << <<".", "r", "s">> >>],
      [none |-> FALSE, list |-> << <<"m", "d">> >>] }

\* -i and the .gitignore lines: exact name tokens.
IgnoreChoices == { <<>>, <<n_t>>, <<n_b_md>>, <<n_t, n_b_md>> }

\* The orders in which fs::read_dir may enumerate a directory.
EnumOrders == Permutations(1..MaxChildren)

Files(T) == { e.path : e \in { x \in T : ~x.dir } }
Dirs(T) == { e.path : e \in { x \in T : x.dir } }

is_dir(path) == path = RootPath \/ path \in Dirs(fs)

Children(dir) == { e \in fs : Parent(e.path) = dir }

RECURSIVE SetToSeq(_)
SetToSeq(S) ==
    IF S = {} THEN <<>>
    ELSE LET m == CHOOSE x \in S :
                    \A y \in S : y = x \/ PathLess(x.path, y.path)
         IN  <<m>> \o SetToSeq(S \ {m})

\* fs::read_dir: the entries of a directory, in the order the file system
\* enumerates them (perm).
read_dir(dir, perm) ==
    LET c == SetToSeq(Children(dir))
        order == SortSeq([i \in 1..Len(c) |-> i],
                         LAMBDA i, j : perm[i] < perm[j])
    IN  [i \in 1..Len(c) |-> c[order[i]]]

(***************************************************************************)
(* The walker: get_all_files.                                              *)
(***************************************************************************)
Panic == [panic |-> TRUE, v |-> <<>>]
Ok(x) == [panic |-> FALSE, v |-> x]

\* The test with the whole path compared with the tokens, not the name.
dir_ignored_by_path(path, ignore_folders) ==
    contains(ignore_folders, Display(path))

\* get_all_files: the directory's own name is an ignore token.
dir_ignored(path, ignore_folders) == contains(ignore_folders, file_name(path))

\* The list left in the order the entries were met.
SortPaths_skipped(paths) == paths

\* Vec<PathBuf>::sort
SortPaths(paths) == SortSeq(paths, PathLess)

\* The extension test of get_all_files.
extension_matches(path, file_extensions) ==
    \/ file_extensions.none
    \/ \E k \in DOMAIN file_extensions.list :
          LET e == extension(path)
          IN  e.some /\ e.v = trim_start_matches(file_extensions.list[k], ".")

RECURSIVE get_all_files(_, _, _, _), get_all_files_loop(_, _, _, _, _, _)

get_all_files_loop(entries, i, acc, file_extensions, ignore_folders, perm) ==
    IF i > Len(entries) THEN Ok(acc)
    ELSE
      LET path == entries[i].path
      IN  IF entries[i].dir
          THEN IF ~dir_ignored(path, ignore_folders)
               THEN LET sub == get_all_files(path, file_extensions,
                                             ignore_folders, perm)
                    IN  IF sub.panic THEN Panic
                        ELSE get_all_files_loop(entries, i + 1, acc \o sub.v,
                                 file_extensions, ignore_folders, perm)
               ELSE get_all_files_loop(entries, i + 1, acc,
                        file_extensions, ignore_folders, perm)
          ELSE IF extension_matches(path, file_extensions)
               THEN get_all_files_loop(entries, i + 1, Append(acc, path),
                        file_extensions, ignore_folders, perm)
               ELSE get_all_files_loop(entries, i + 1, acc,
                        file_extensions, ignore_folders, perm)

get_all_files(folder_path, file_extensions, ignore_folders, perm) ==
    IF ~is_dir(folder_path) \/ folder_path \in unlistable THEN Panic
    ELSE LET r == get_all_files_loop(read_dir(folder_path, perm), 1, <<>>,
                      file_extensions, ignore_folders, perm)
         IN  IF r.panic THEN Panic ELSE Ok(SortPaths(r.v))

\* create_file_list: one "- <relative path>" line per file.
create_file_list(folder_path, file_extensions, ignore_folders, perm) ==
    LET r == get_all_files(folder_path, file_extensions, ignore_folders, perm)
    IN  IF r.panic THEN Panic
        ELSE Ok(Join([i \in DOMAIN r.v |->
                         <<"- ">> \o Display(strip_prefix(r.v[i], folder_path))],
                     <<"\n">>))

(***************************************************************************)
(* The walker: create_folder_tree.                                         *)
(***************************************************************************)
\* The key of the sort of a directory's entries: (!is_dir, file_name).
TreeKeyLess(a, b) ==
    \/ a.dir /\ ~b.dir
    \/ a.dir = b.dir /\ StrLess(file_name(a.path), file_name(b.path))

\* create_folder_tree_inner: the entry's name is an ignore token.
entry_ignored(entry, ignore_folders) ==
    contains(ignore_folders, file_name(entry.path))

\* The extension test of create_folder_tree_inner.
tree_extension_matches(path, file_extensions) ==
    \/ file_extensions.none
    \/ \E k \in DOMAIN file_extensions.list :
          ends_with(file_name(path), file_extensions.list[k])

RECURSIVE create_folder_tree_inner(_, _, _, _, _),
          create_folder_tree_loop(_, _, _, _, _, _, _)

create_folder_tree_loop(contents, i, tree, file_extensions, ignore_folders, prefix, perm) ==
    IF i > Len(contents) THEN Ok(tree)
    ELSE
      LET is_last == i = Len(contents)
          name == file_name(contents[i].path)
          conn == IF is_last THEN "+--" ELSE "|--"
      IN  IF contents[i].dir
          THEN LET new_prefix ==
                       prefix \o <<IF is_last THEN " " ELSE "|", "   ">>
                   sub == create_folder_tree_inner(contents[i].path,
                              file_extensions, ignore_folders, new_prefix,
                              perm)
               IN  IF sub.panic THEN Panic
                   ELSE create_folder_tree_loop(contents, i + 1,
                            tree \o prefix \o <<conn, " ">> \o name
                                 \o <<"/", "\n">> \o sub.v,
                            file_extensions, ignore_folders, prefix, perm)
          ELSE IF tree_extension_matches(contents[i].path, file_extensions)
               THEN create_folder_tree_loop(contents, i + 1,
                        tree \o prefix \o <<conn, " ">> \o name \o <<"\n">>,
                        file_extensions, ignore_folders, prefix, perm)
               ELSE create_folder_tree_loop(contents, i + 1, tree,
                        file_extensions, ignore_folders, prefix, perm)

create_folder_tree_inner(path, file_extensions, ignore_folders, prefix, perm) ==
    IF ~is_dir(path) \/ path \in unlistable THEN Panic
    ELSE LET listed == read_dir(path, perm)
             kept == SelectSeq(listed,
                        LAMBDA e : ~entry_ignored(e, ignore_folders))
             contents == SortSeq(kept, TreeKeyLess)
         IN  create_folder_tree_loop(contents, 1, <<>>, file_extensions,
                 ignore_folders, prefix, perm)

create_folder_tree(path, file_extensions, ignore_folders, perm) ==
    create_folder_tree_inner(path, file_extensions, ignore_folders, <<>>, perm)

(***************************************************************************)
(* The template engine: CombinerTemplate.                                  *)
(***************************************************************************)
\* str::replace: every non-overlapping occurrence of from, left to right;
\* the text put in is not scanned again.
RECURSIVE replace(_, _, _)
replace(s, from, to) ==
    IF Len(s) < Len(from) THEN s
    ELSE IF SubSeq(s, 1, Len(from)) = from
         THEN to \o replace(SubSeq(s, Len(from) + 1, Len(s)), from, to)
         ELSE <<Head(s)>> \o replace(Tail(s), from, to)

\* format! of the key between braces
Placeholder(key) == <<"{", key, "}">>

RECURSIVE replace_each(_, _, _)
replace_each(out, template_fields, order) ==
    IF order = <<>> THEN out
    ELSE replace_each(
             replace(out, Placeholder(Head(order)), template_fields[Head(order)]),
             template_fields, Tail(order))

\* generate_output_file_content: one replace per entry of the HashMap, in
\* the order the map iterates (order, a sequence of its keys).
generate_output_file_content(template, template_fields, order) ==
    replace_each(template, template_fields, order)

\* The orders a HashMap with the given keys may iterate in.
RECURSIVE SeqsOf(_)
SeqsOf(keys) ==
    IF keys = {} THEN {<<>>}
    ELSE UNION { { <<k>> \o rest : rest \in SeqsOf(keys \ {k}) } : k \in keys }

Reverse(q) == [i \in DOMAIN q |-> q[Len(q) + 1 - i]]

Rotations(q) ==
    { SubSeq(q, k, Len(q)) \o SubSeq(q, 1, k - 1) : k \in DOMAIN q }

NoOutput == [writes |-> 0, content |-> <<>>]

\* fs::write(output, text).expect(..)
fs_write(text) == [writes |-> output.writes + 1, content |-> text]

(***************************************************************************)
(* Rendering one template repeatedly with one field mapping.               *)
(***************************************************************************)
MaxPieces == 3

TplPieces ==
    { <<"x">>, <<"{">>, <<"}">>, Placeholder("A"), Placeholder("B"),
      Placeholder("C") }

RECURSIVE TplTemplates(_)
TplTemplates(n) ==
    IF n = 0 THEN {<<>>}
    ELSE LET shorter == TplTemplates(n - 1)
         IN  shorter \cup { t \o piece : t \in shorter, piece \in TplPieces }

TplValues == { <<"x">>, <<>>, Placeholder("A"), Placeholder("B") }

TplFieldSets ==
    UNION { [keys -> TplValues] : keys \in SUBSET {"A", "B"} }

InitTpl ==
    /\ root_is_dir = TRUE
    /\ fs = {}
    /\ unlistable = {}
    /\ unreadable = {}
    /\ out_writable = TRUE
    /\ command = "none"
    /\ extensions = [none |-> TRUE, list |-> <<>>]
    /\ ignore_patterns = <<>>
    /\ add_line_numbers = FALSE
    /\ mode = "custom"
    /\ custom_output_template = "ok"
    /\ custom_file_template = "ok"
    /\ pc = "start"
    /\ exit_code = -1
    /\ all_files = <<>>
    /\ folder_tree = <<>>
    /\ files_included = <<>>
    /\ output_template \in TplTemplates(MaxPieces)
    /\ file_template = <<>>
    /\ all_file_contents = <<>>
    /\ idx = 0
    /\ faults = 0
    /\ tpl_fields \in TplFieldSets
    /\ rendered = {}
    /\ output = NoOutput
    /\ console = <<>>

\* One call of generate_output_file_content.
Render(order) ==
    /\ rendered' = rendered \cup
           {generate_output_file_content(output_template, tpl_fields, order)}
    /\ UNCHANGED <<fs, root_is_dir, unlistable, unreadable, out_writable,
                   command, extensions, ignore_patterns, add_line_numbers,
                   mode, custom_output_template, custom_file_template, pc,
                   exit_code, all_files, folder_tree, files_included,
                   output_template, file_template, all_file_contents, idx,
                   faults, tpl_fields, output, console>>

NextTpl == \E order \in SeqsOf(DOMAIN tpl_fields) : Render(order)

SpecTpl == InitTpl /\ [][NextTpl]_vars


(***************************************************************************)
(* main: the tree and list subcommands, run on an unchanged folder.        *)
(***************************************************************************)
InitIdle ==
    /\ root_is_dir = TRUE
    /\ unreadable = {}
    /\ out_writable = TRUE
    /\ add_line_numbers = FALSE
    /\ mode = "xml"
    /\ custom_output_template = "none"
    /\ custom_file_template = "none"
    /\ files_included = <<>>
    /\ output_template = <<>>
    /\ file_template = <<>>
    /\ all_file_contents = <<>>
    /\ idx = 0
    /\ faults = 0
    /\ tpl_fields = <<>>
    /\ rendered = {}

InitWalk ==
    /\ InitIdle
    /\ fs \in Trees(MaxEntries)
    /\ unlistable \in SUBSET (Dirs(fs) \cap {RootPath \o <<n_t>>})
    /\ extensions \in ExtChoices
    /\ ignore_patterns \in IgnoreChoices
    /\ command = "none"
    /\ pc = "start"
    /\ exit_code = -1
    /\ all_files = <<>>
    /\ folder_tree = <<>>
    /\ output = NoOutput
    /\ console = <<>>

Ran(cmd) == \E i \in DOMAIN console : console[i].cmd = cmd

\* Commands::Tree
MainTree(perm) ==
    /\ pc = "start"
    /\ ~Ran("tree")
    /\ LET tree == create_folder_tree(RootPath, extensions, ignore_patterns,
                                      perm)
       IN  IF tree.panic \/ ~out_writable
           THEN /\ exit_code' = 101
                /\ console' = Append(console, [cmd |-> "tree", msg |-> "panic", at |-> "main"])
                /\ UNCHANGED <<folder_tree, output>>
           ELSE /\ exit_code' = 0
                /\ folder_tree' = tree.v
                /\ output' = fs_write(tree.v)
                /\ console' = Append(console, [cmd |-> "tree", msg |-> "saved", at |-> "main"])
    /\ command' = "tree"
    /\ UNCHANGED <<fs, root_is_dir, unlistable, unreadable, out_writable,
                   extensions, ignore_patterns, add_line_numbers, mode,
                   custom_output_template, custom_file_template, pc,
                   all_files, files_included, output_template, file_template,
                   all_file_contents, idx, faults, tpl_fields, rendered>>

\* Commands::List
MainList(perm) ==
    /\ pc = "start"
    /\ ~Ran("list")
    /\ LET files == get_all_files(RootPath, extensions, ignore_patterns, perm)
           list == create_file_list(RootPath, extensions, ignore_patterns,
                                    perm)
       IN  IF list.panic \/ ~out_writable
           THEN /\ exit_code' = 101
                /\ console' = Append(console, [cmd |-> "list", msg |-> "panic", at |-> "main"])
                /\ UNCHANGED <<all_files, output>>
           ELSE /\ exit_code' = 0
                /\ all_files' = files.v
                /\ output' = fs_write(list.v)
                /\ console' = Append(console, [cmd |-> "list", msg |-> "saved", at |-> "main"])
    /\ command' = "list"
    /\ UNCHANGED <<fs, root_is_dir, unlistable, unreadable, out_writable,
                   extensions, ignore_patterns, add_line_numbers, mode,
                   custom_output_template, custom_file_template, pc,
                   folder_tree, files_included, output_template,
                   file_template, all_file_contents, idx, faults,
                   tpl_fields, rendered>>

NextWalk ==
    \/ \E perm \in EnumOrders : MainTree(perm)
    \/ \E perm \in EnumOrders : MainList(perm)

SpecWalk == InitWalk /\ [][NextWalk]_vars

(***************************************************************************)
(* The aggregation run: process_folder, started by Commands::Combine.      *)
(***************************************************************************)
MaxFaults == 1

XML_OUTPUT_TEMPLATE ==
    <<"<file_overview>\nTotal files: ">> \o Placeholder("TOTAL_FILES")
    \o <<"\nDate generated: ">> \o Placeholder("DATE_GENERATED")
    \o <<"\nFolder Structure:\n">> \o Placeholder("FOLDER_TREE")
    \o <<"\n\nFiles included:\n">> \o Placeholder("FILES_INCLUDED")
    \o <<"\n</file_overview>\n\n">> \o Placeholder("FILE_CONTENTS")

XML_FILE_TEMPLATE ==
    <<"<file path=\"">> \o Placeholder("FILE_PATH")
    \o <<"\" lines=\"">> \o Placeholder("LINES_COUNT")
    \o <<"\" modified=\"">> \o Placeholder("MODIFIED_TIME")
    \o <<"\">\n">> \o Placeholder("FILE_CONTENT")
    \o <<"\n</file>\n\n">>

MARKDOWN_OUTPUT_TEMPLATE ==
    <<"# File Overview\n\n- **Total files:** ">> \o Placeholder("TOTAL_FILES")
    \o <<"\n- **Date generated:** ">> \o Placeholder("DATE_GENERATED")
    \o <<"\n\n## Folder Structure\n\n'''\n">> \o Placeholder("FOLDER_TREE")
    \o <<"\n'''\n\n## Files Included\n\n">> \o Placeholder("FILES_INCLUDED")
    \o <<"\n\n\n## Files Contents\n\n---\n">> \o Placeholder("FILE_CONTENTS")

MARKDOWN_FILE_TEMPLATE ==
    <<"### ">> \o Placeholder("FILE_NAME")
    \o <<"\n\n- **Path:** '">> \o Placeholder("FILE_PATH")
    \o <<"'\n- **Lines:** ">> \o Placeholder("LINES_COUNT")
    \o <<"\n- **Modified:** ">> \o Placeholder("MODIFIED_TIME")
    \o <<"\n\n'''\n">> \o Placeholder("FILE_CONTENT")
    \o <<"\n'''\n\n---\n\n">>

\* What the two files given in custom mode hold.
CustomOutputFile ==
    <<"Total files: ">> \o Placeholder("TOTAL_FILES") \o <<"\n">>
    \o Placeholder("FILES_INCLUDED") \o <<"\n">> \o Placeholder("AUTHOR")
    \o <<"\n">> \o Placeholder("FILE_CONTENTS")

CustomFileFile ==
    <<"== ">> \o Placeholder("FILE_NAME") \o <<" ">>
    \o Placeholder("LINES_COUNT") \o <<"\n">> \o Placeholder("FILE_CONTENT")
    \o <<"\n">>

Modes == {"xml", "XML", "markdown", "custom", "yaml"}

\* str::to_lowercase on the mode names of the model.
to_lowercase(m) == IF m = "XML" THEN "xml" ELSE m

\* CombinerTemplate::from_file
from_file(template_file, text) ==
    IF template_file = "ok" THEN Ok(text) ELSE Panic

\* The match with a default arm that falls back to the xml templates.
resolve_templates_default_xml(m, custom_output, custom_file) ==
    IF to_lowercase(m) = "custom"
          /\ (custom_output # "ok" \/ custom_file # "ok")
    THEN [panic |-> TRUE, at |-> "custom-templates-missing",
          output |-> <<>>, file |-> <<>>]
    ELSE [panic |-> FALSE, at |-> "-", output |-> XML_OUTPUT_TEMPLATE,
          file |-> XML_FILE_TEMPLATE]

\* The match on the mode that picks the two templates.
resolve_templates(m, custom_output, custom_file) ==
    CASE to_lowercase(m) = "xml" ->
            [panic |-> FALSE, at |-> "-", output |-> XML_OUTPUT_TEMPLATE,
             file |-> XML_FILE_TEMPLATE]
      [] to_lowercase(m) = "markdown" ->
            [panic |-> FALSE, at |-> "-", output |-> MARKDOWN_OUTPUT_TEMPLATE,
             file |-> MARKDOWN_FILE_TEMPLATE]
      [] to_lowercase(m) = "custom" ->
            IF custom_output = "none" \/ custom_file = "none"
            THEN [panic |-> TRUE, at |-> "custom-templates-missing",
                  output |-> <<>>, file |-> <<>>]
            ELSE IF from_file(custom_output, CustomOutputFile).panic
                    \/ from_file(custom_file, CustomFileFile).panic
                 THEN [panic |-> TRUE, at |-> "template-file",
                       output |-> <<>>, file |-> <<>>]
                 ELSE [panic |-> FALSE, at |-> "-",
                       output |-> from_file(custom_output, CustomOutputFile).v,
                       file |-> from_file(custom_file, CustomFileFile).v]
      [] OTHER ->
            [panic |-> TRUE, at |-> "invalid-mode", output |-> <<>>,
             file |-> <<>>]

\* What fs::read_to_string gives for each file of the model.
FileContent(path) ==
    CASE file_name(path) = n_a_rs -> <<"f", "n", "\n", "m", "\n">>
      [] file_name(path) = n_b_md -> Placeholder("FILE_PATH") \o <<"\n">>
      [] file_name(path) = n_xrs -> <<" ", "z", "\n", "\n", "y", " ">>
      [] OTHER -> <<>>

\* The modification time of the file, formatted as %Y-%m-%d %H:%M:%S.
ModifiedTime(path) == <<"2024-05-06 07:08:09">>

\* Local::now() formatted as %Y-%m-d %H:%M:%S.
DateGenerated == <<"2024-05-d 07:08:10">>

Digits == <<"0", "1", "2", "3", "4", "5", "6", "7", "8", "9">>

\* usize::to_string
RECURSIVE to_string(_)
to_string(n) ==
    IF n < 10 THEN <<Digits[n + 1]>>
    ELSE to_string(n \div 10) \o <<Digits[(n % 10) + 1]>>

\* str::lines: the text split at line feeds, a final empty line dropped.
RECURSIVE lines_from(_, _)
lines_from(text, line) ==
    IF text = <<>> THEN (IF line = <<>> THEN <<>> ELSE <<line>>)
    ELSE IF Head(text) = "\n" THEN <<line>> \o lines_from(Tail(text), <<>>)
    ELSE lines_from(Tail(text), Append(line, Head(text)))

lines(text) == lines_from(text, <<>>)

IsWhitespace(tok) == tok \in {" ", "\n", "   "}

RECURSIVE trim_start(_)
trim_start(s) ==
    IF s # <<>> /\ IsWhitespace(Head(s)) THEN trim_start(Tail(s)) ELSE s

RECURSIVE trim_end(_)
trim_end(s) ==
    IF s # <<>> /\ IsWhitespace(s[Len(s)])
    THEN trim_end(SubSeq(s, 1, Len(s) - 1)) ELSE s

\* str::trim
trim(s) == trim_end(trim_start(s))

RECURSIVE Spaces(_)
Spaces(n) == IF n <= 0 THEN <<>> ELSE <<" ">> \o Spaces(n - 1)

\* format! of i + 1 left-justified in six columns, a bar, a space, the line
numbered_line(i, line) ==
    to_string(i) \o Spaces(6 - Len(to_string(i))) \o <<"|", " ">> \o line

\* The content block of a file: with line numbers when asked for.
formatted_content(content, numbering) ==
    IF numbering
    THEN LET ls == lines(content)
         IN  Join([i \in DOMAIN ls |-> numbered_line(i, ls[i])], <<"\n">>)
    ELSE content

RECURSIVE Concat(_)
Concat(parts) == IF parts = <<>> THEN <<>> ELSE Head(parts) \o Concat(Tail(parts))

\* The field mapping of the inner template for one file.
file_fields(file_path, folder_path, content, numbering) ==
    [k \in {"FILE_PATH", "FILE_NAME", "LINES_COUNT", "MODIFIED_TIME",
            "FILE_CONTENT"} |->
        CASE k = "FILE_PATH" -> Display(strip_prefix(file_path, folder_path))
          [] k = "FILE_NAME" -> file_name(file_path)
          [] k = "LINES_COUNT" -> to_string(Len(lines(content)))
          [] k = "MODIFIED_TIME" -> ModifiedTime(file_path)
          [] k = "FILE_CONTENT" ->
                trim(formatted_content(content, numbering))]

\* The field mapping of the outer template.
output_fields ==
    [k \in {"TOTAL_FILES", "DATE_GENERATED", "FOLDER_TREE", "FILES_INCLUDED",
            "FILE_CONTENTS"} |->
        CASE k = "TOTAL_FILES" -> to_string(Len(all_files))
          [] k = "DATE_GENERATED" -> DateGenerated
          [] k = "FOLDER_TREE" -> trim(folder_tree)
          [] k = "FILES_INCLUDED" -> files_included
          [] k = "FILE_CONTENTS" -> Concat(all_file_contents)]

FILE_KEYS ==
    <<"FILE_PATH", "FILE_NAME", "LINES_COUNT", "MODIFIED_TIME", "FILE_CONTENT">>

OUTPUT_KEYS ==
    <<"TOTAL_FILES", "DATE_GENERATED", "FOLDER_TREE", "FILES_INCLUDED",
      "FILE_CONTENTS">>

\* The iteration orders of a five-entry HashMap that the model follows:
\* every key comes first in one of them and last in another.
HashOrders(keys) == Rotations(keys) \cup Rotations(Reverse(keys))

\* The folders and options a run of the model is started on.
RunCandidates ==
    { Dir(<<n_t>>), File(<<n_a_rs>>), File(<<n_b_md>>), File(<<n_xrs>>),
      File(<<n_t, n_a_rs>>) }

RunTrees == { T \in Trees(MaxEntries) : T \subseteq RunCandidates }

RunExtChoices == { e \in ExtChoices : e.none \/ e.list = << <<"r", "s">> >> }

\* The tokens handed to process_folder; the default tokens and the lines
\* of .gitignore that name no entry of the folder are left out.
RunIgnoreChoices == { <<>>, <<n_t>> }

TemplateFileStates == {"none", "ok", "unreadable"}

Init ==
    /\ command = "combine"
    /\ pc = "start"
    /\ exit_code = -1
    /\ root_is_dir \in BOOLEAN
    /\ fs \in IF root_is_dir THEN RunTrees ELSE {{}}
    /\ unlistable \in
          IF root_is_dir
          THEN SUBSET ({RootPath} \cup (Dirs(fs) \cap {RootPath \o <<n_t>>}))
          ELSE {{}}
    /\ unreadable = {}
    /\ out_writable \in BOOLEAN
    /\ extensions \in RunExtChoices
    /\ ignore_patterns \in RunIgnoreChoices
    /\ add_line_numbers \in BOOLEAN
    /\ mode \in Modes
    /\ custom_output_template \in
          IF mode = "custom" THEN TemplateFileStates ELSE {"none"}
    /\ custom_file_template \in
          IF mode = "custom" THEN TemplateFileStates ELSE {"none"}
    /\ all_files = <<>>
    /\ folder_tree = <<>>
    /\ files_included = <<>>
    /\ output_template = <<>>
    /\ file_template = <<>>
    /\ all_file_contents = <<>>
    /\ idx = 0
    /\ faults = 0
    /\ tpl_fields = <<>>
    /\ rendered = {}
    /\ output = NoOutput
    /\ console = <<>>

Say(msg, at) == Append(console, [cmd |-> "combine", msg |-> msg, at |-> at])

\* A panic: the message goes to stderr and the process exits with 101.
Abort(at) ==
    /\ pc' = "exited"
    /\ exit_code' = 101
    /\ console' = Say("panic", at)

\* process_folder's first test; on failure it prints and returns, and main
\* returns after it.
PF_Validate ==
    /\ pc = "start"
    /\ IF ~root_is_dir
       THEN /\ pc' = "exited"
            /\ exit_code' = 0
            /\ console' = Say("error", "folder-missing")
       ELSE /\ pc' = "collect"
            /\ UNCHANGED <<exit_code, console>>
    /\ UNCHANGED <<fs, root_is_dir, unlistable, unreadable, out_writable,
                   command, extensions, ignore_patterns, add_line_numbers,
                   mode, custom_output_template, custom_file_template,
                   all_files, folder_tree, files_included, output_template,
                   file_template, all_file_contents, idx, faults, tpl_fields,
                   rendered, output>>

\* let all_files = get_all_files(..)
PF_Collect(perm) ==
    /\ pc = "collect"
    /\ LET r == get_all_files(RootPath, extensions, ignore_patterns, perm)
       IN  IF r.panic
           THEN Abort("read_dir") /\ UNCHANGED all_files
           ELSE /\ all_files' = r.v
                /\ pc' = "templates"
                /\ UNCHANGED <<exit_code, console>>
    /\ UNCHANGED <<fs, root_is_dir, unlistable, unreadable, out_writable,
                   command, extensions, ignore_patterns, add_line_numbers,
                   mode, custom_output_template, custom_file_template,
                   folder_tree, files_included, output_template,
                   file_template, all_file_contents, idx, faults, tpl_fields,
                   rendered, output>>

\* let (output_template, file_template) = match mode ..
PF_Templates ==
    /\ pc = "templates"
    /\ LET r == resolve_templates(mode, custom_output_template,
                                  custom_file_template)
       IN  IF r.panic
           THEN Abort(r.at) /\ UNCHANGED <<output_template, file_template>>
           ELSE /\ output_template' = r.output
                /\ file_template' = r.file
                /\ pc' = "tree"
                /\ UNCHANGED <<exit_code, console>>
    /\ UNCHANGED <<fs, root_is_dir, unlistable, unreadable, out_writable,
                   command, extensions, ignore_patterns, add_line_numbers,
                   mode, custom_output_template, custom_file_template,
                   all_files, folder_tree, files_included, all_file_contents,
                   idx, faults, tpl_fields, rendered, output>>

\* let folder_tree = create_folder_tree(..); let files_included = ..
PF_Tree(perm) ==
    /\ pc = "tree"
    /\ LET r == create_folder_tree(RootPath, extensions, ignore_patterns, perm)
       IN  IF r.panic
           THEN Abort("read_dir") /\ UNCHANGED <<folder_tree, files_included, idx>>
           ELSE /\ folder_tree' = r.v
                /\ files_included' =
                       Join([i \in DOMAIN all_files |->
                                <<"- ">> \o Display(strip_prefix(all_files[i],
                                                                 RootPath))],
                            <<"\n">>)
                /\ idx' = 1
                /\ pc' = IF all_files = <<>> THEN "render" ELSE "loop"
                /\ UNCHANGED <<exit_code, console>>
    /\ UNCHANGED <<fs, root_is_dir, unlistable, unreadable, out_writable,
                   command, extensions, ignore_patterns, add_line_numbers,
                   mode, custom_output_template, custom_file_template,
                   all_files, output_template, file_template,
                   all_file_contents, faults, tpl_fields, rendered, output>>

\* One turn of the loop over all_files.
PF_File(order) ==
    /\ pc = "loop"
    /\ LET file_path == all_files[idx]
       IN  IF file_path \notin Files(fs)
           THEN \* fs::metadata(file_path).unwrap()
                Abort("metadata") /\ UNCHANGED <<all_file_contents, idx>>
           ELSE /\ IF file_path \in unreadable
                   THEN /\ console' = Say("warning", "read_to_string")
                        /\ UNCHANGED all_file_contents
                   ELSE /\ all_file_contents' =
                               Append(all_file_contents,
                                   generate_output_file_content(file_template,
                                       file_fields(file_path, RootPath,
                                           FileContent(file_path),
                                           add_line_numbers),
                                       order))
                        /\ UNCHANGED console
                /\ idx' = idx + 1
                /\ pc' = IF idx = Len(all_files) THEN "render" ELSE "loop"
                /\ UNCHANGED exit_code
    /\ UNCHANGED <<fs, root_is_dir, unlistable, unreadable, out_writable,
                   command, extensions, ignore_patterns, add_line_numbers,
                   mode, custom_output_template, custom_file_template,
                   all_files, folder_tree, files_included, output_template,
                   file_template, faults, tpl_fields, rendered, output>>

\* The outer template is rendered and the result written.
PF_Write(order) ==
    /\ pc = "render"
    /\ LET output_content ==
               generate_output_file_content(output_template, output_fields,
                                            order)
       IN  IF ~out_writable
           THEN Abort("write") /\ UNCHANGED output
           ELSE /\ output' = fs_write(output_content)
                /\ console' = Say("combined", "-")
                /\ pc' = "exited"
                /\ exit_code' = 0
    /\ UNCHANGED <<fs, root_is_dir, unlistable, unreadable, out_writable,
                   command, extensions, ignore_patterns, add_line_numbers,
                   mode, custom_output_template, custom_file_template,
                   all_files, folder_tree, files_included, output_template,
                   file_template, all_file_contents, idx, faults, tpl_fields,
                   rendered>>

\* The files the loop of process_folder has still to read.
Pending == { all_files[k] : k \in { i \in DOMAIN all_files : i >= idx } }

\* The folder changes under the run, between the discovery of the files
\* and the read of the last one: a discovered file is removed ..
RemoveFile(f) ==
    /\ pc \in {"tree", "loop"}
    /\ faults < MaxFaults
    /\ f \in Pending \cap Files(fs)
    /\ fs' = fs \ {[path |-> f, dir |-> FALSE]}
    /\ faults' = faults + 1
    /\ UNCHANGED <<root_is_dir, unlistable, unreadable, out_writable, command,
                   extensions, ignore_patterns, add_line_numbers, mode,
                   custom_output_template, custom_file_template, pc,
                   exit_code, all_files, folder_tree, files_included,
                   output_template, file_template, all_file_contents, idx,
                   tpl_fields, rendered, output, console>>

\* .. or is made unreadable.
MakeUnreadable(f) ==
    /\ pc \in {"tree", "loop"}
    /\ faults < MaxFaults
    /\ f \in (Pending \cap Files(fs)) \ unreadable
    /\ unreadable' = unreadable \cup {f}
    /\ faults' = faults + 1
    /\ UNCHANGED <<fs, root_is_dir, unlistable, out_writable, command,
                   extensions, ignore_patterns, add_line_numbers, mode,
                   custom_output_template, custom_file_template, pc,
                   exit_code, all_files, folder_tree, files_included,
                   output_template, file_template, all_file_contents, idx,
                   tpl_fields, rendered, output, console>>

Next ==
    \/ PF_Validate
    \/ \E perm \in EnumOrders : PF_Collect(perm)
    \/ PF_Templates
    \/ \E perm \in EnumOrders : PF_Tree(perm)
    \/ \E order \in HashOrders(FILE_KEYS) : PF_File(order)
    \/ \E order \in HashOrders(OUTPUT_KEYS) : PF_Write(order)
    \/ \E f \in Files(Candidates) : RemoveFile(f)
    \/ \E f \in Files(Candidates) : MakeUnreadable(f)

Spec == Init /\ [][Next]_vars

(***************************************************************************)
(* Reading a tree diagram back: its lines, and the path each line shows.   *)
(***************************************************************************)
RECURSIVE SplitLines(_, _)
SplitLines(text, line) ==
    IF text = <<>> THEN (IF line = <<>> THEN <<>> ELSE <<line>>)
    ELSE IF Head(text) = "\n" THEN <<line>> \o SplitLines(Tail(text), <<>>)
    ELSE SplitLines(Tail(text), Append(line, Head(text)))

IsConnector(tok) == tok \in {"|--", "+--"}

ParseLine(line) ==
    LET pos == CHOOSE i \in DOMAIN line :
                   IsConnector(line[i]) /\ \A j \in 1..(i - 1) : ~IsConnector(line[j])
        rest == SubSeq(line, pos + 2, Len(line))
        slash == rest # <<>> /\ rest[Len(rest)] = "/"
    IN  [depth |-> (pos - 1) \div 2,
         conn |-> line[pos],
         dir |-> slash,
         name |-> IF slash THEN SubSeq(rest, 1, Len(rest) - 1) ELSE rest]

TreeEntries(text) ==
    LET rows == SplitLines(text, <<>>)
    IN  [i \in DOMAIN rows |-> ParseLine(rows[i])]

\* The line of the directory that line i is printed under (0 at top level).
ParentLine(E, i) ==
    IF E[i].depth = 0 THEN 0
    ELSE CHOOSE j \in 1..(i - 1) :
            /\ E[j].depth = E[i].depth - 1
            /\ \A k \in (j + 1)..(i - 1) : E[k].depth >= E[i].depth

RECURSIVE EntryPath(_, _)
EntryPath(E, i) ==
    IF ParentLine(E, i) = 0 THEN RootPath \o <<E[i].name>>
    ELSE EntryPath(E, ParentLine(E, i)) \o <<E[i].name>>

ShownPaths(text) ==
    LET E == TreeEntries(text) IN { EntryPath(E, i) : i \in DOMAIN E }

ShownFiles(text) ==
    LET E == TreeEntries(text)
    IN  { EntryPath(E, i) : i \in { k \in DOMAIN E : ~E[k].dir } }

Siblings(E, i, j) == ParentLine(E, i) = ParentLine(E, j)

IsLastSibling(E, i) == ~\E j \in DOMAIN E : j > i /\ Siblings(E, i, j)

IsPrefix(p, q) == Len(p) <= Len(q) /\ SubSeq(q, 1, Len(p)) = p

Saved(cmd) ==
    \E i \in DOMAIN console : console[i].cmd = cmd /\ console[i].msg = "saved"

Panicked == \E i \in DOMAIN console : console[i].msg = "panic"

ToSet(seq) == { seq[i] : i \in DOMAIN seq }

\* A directory below the folder whose name is an ignore token.
IgnoredDirs == { d \in Dirs(fs) : contains(ignore_patterns, file_name(d)) }

UnderIgnoredDir(p) ==
    \E d \in IgnoredDirs : IsPrefix(d, p) /\ d # p

(***************************************************************************)
(* The walker's claims, under SpecWalk.                                    *)
(***************************************************************************)

\* C1: the set get_all_files returns is exactly the set of files under the
\* folder that are not beneath an ignored directory, whose own name is not
\* an ignore token, and whose extension is in the filter when one is given.
C1_CollectExact ==
    Saved("list") =>
        ToSet(all_files) =
            { f \in Files(fs) :
                /\ ~UnderIgnoredDir(f)
                /\ ~contains(ignore_patterns, file_name(f))
                /\ extension_matches(f, extensions) }

\* C2 as stated: the list get_all_files returns is strictly ascending in
\* the lexicographic order of the full paths as strings.
C2_SortedAsStrings ==
    Saved("list") =>
        \A i \in 1..(Len(all_files) - 1) :
            PathLessAsString(all_files[i], all_files[i + 1])

\* C2 amended: the list get_all_files returns is strictly ascending in the
\* component-wise order of the paths, whatever order the file system
\* enumerates the entries in.
C2_SortedByComponents ==
    Saved("list") =>
        \A i \in 1..(Len(all_files) - 1) :
            PathLessByComponents(all_files[i], all_files[i + 1])

\* A directory "a" with a file in it next to the file "a.rs", both listed.
C2_Witness ==
    /\ Saved("list")
    /\ RootPath \o <<n_a, n_b_md>> \in ToSet(all_files)
    /\ RootPath \o <<n_a_rs>> \in ToSet(all_files)

\* C3: a directory whose name is an ignore token is pruned with its whole
\* subtree: it is never listed (an unlistable ignored directory fails no
\* run), and neither it nor anything beneath it shows in the result of
\* get_all_files or in the tree diagram.
C3_PruneSubtree ==
    /\ \A i \in DOMAIN all_files :
          \A d \in IgnoredDirs : ~IsPrefix(d, all_files[i])
    /\ \A p \in ShownPaths(folder_tree) :
          \A d \in IgnoredDirs : ~IsPrefix(d, p)
    /\ (\A u \in unlistable : \E d \in IgnoredDirs : IsPrefix(d, u))
          => ~Panicked

\* Both walks done on a tree with an ignored directory that holds, at some
\* depth, a file the extension filter of either walk accepts.
C3_Witness ==
    /\ Saved("list") /\ Saved("tree")
    /\ all_files # <<>>
    /\ \E f \in Files(fs) :
          /\ UnderIgnoredDir(f)
          /\ Len(f) > 3
          /\ extension_matches(f, extensions)
          /\ tree_extension_matches(f, extensions)
          /\ ~extensions.none

\* C7: in the diagram, the last entry rendered at each level carries the
\* last-sibling connector and every other entry the non-last one;
\* directories come before files, each group in ascending order of name.
C7_Connectors ==
    Saved("tree") =>
        LET E == TreeEntries(folder_tree)
        IN  /\ \A i \in DOMAIN E :
                  E[i].conn = IF IsLastSibling(E, i) THEN "+--" ELSE "|--"
            /\ \A i, j \in DOMAIN E :
                  (i < j /\ Siblings(E, i, j)) =>
                      \/ E[i].dir /\ ~E[j].dir
                      \/ E[i].dir = E[j].dir /\ StrLess(E[i].name, E[j].name)

\* C8: the files the diagram shows are the files get_all_files returns.
C8_SameSelection ==
    (Saved("list") /\ Saved("tree")) =>
        ShownFiles(folder_tree) = ToSet(all_files)

(***************************************************************************)
(* The template engine's claim, under SpecTpl.                             *)
(***************************************************************************)
\* Substitution in one pass over the template: each placeholder of a
\* supplied field is replaced by the field's value, and the values are
\* never scanned.
RECURSIVE SinglePass(_, _)
SinglePass(template, template_fields) ==
    IF template = <<>> THEN <<>>
    ELSE IF \E k \in DOMAIN template_fields :
                 Len(template) >= 3 /\ SubSeq(template, 1, 3) = Placeholder(k)
         THEN template_fields[template[2]]
                  \o SinglePass(SubSeq(template, 4, Len(template)),
                                template_fields)
         ELSE <<Head(template)>> \o SinglePass(Tail(template), template_fields)

\* C6: substitution is single-pass: a value is inserted verbatim, a
\* placeholder inside it is not expanded, and so the rendered text is the
\* same whichever field the mapping yields first.
C6_SinglePass ==
    /\ Cardinality(rendered) <= 1
    /\ \A text \in rendered : text = SinglePass(output_template, tpl_fields)

(***************************************************************************)
(* The claims about the aggregation run, under Spec.                       *)
(***************************************************************************)
TotalLabels ==
    { "<file_overview>\nTotal files: ", "# File Overview\n\n- **Total files:** ",
      "Total files: " }

BlockOpeners == { "<file path=\"", "### ", "== " }

IsDigit(tok) == \E d \in DOMAIN Digits : Digits[d] = tok

\* The number the document reports after its total-files label.
ReportedTotal(content) ==
    LET at == CHOOSE i \in DOMAIN content :
                  content[i] \in TotalLabels
                  /\ \A j \in 1..(i - 1) : content[j] \notin TotalLabels
        stop == CHOOSE j \in (at + 1)..(Len(content) + 1) :
                    /\ \A k \in (at + 1)..(j - 1) : IsDigit(content[k])
                    /\ (j = Len(content) + 1 \/ ~IsDigit(content[j]))
    IN  SubSeq(content, at + 1, stop - 1)

\* The number of inner file blocks in the document.
NumBlocks(content) ==
    Cardinality({ i \in DOMAIN content : content[i] \in BlockOpeners })

Written == command = "combine" /\ output.writes > 0

\* C4: the total the document reports is the number of files whose
\* content was read, which is the number of inner blocks in it.
C4_TotalIsReadCount ==
    Written =>
        /\ NumBlocks(output.content) = Len(all_file_contents)
        /\ ReportedTotal(output.content) = to_string(Len(all_file_contents))

\* C5: a run that has reached the per-file step and can write its output
\* ends with the document written and status 0, whether a discovered file
\* was removed or made unreadable before its read.
C5_ReadFailureRecoverable ==
    (pc = "exited" /\ idx >= 1 /\ out_writable) =>
        (output.writes = 1 /\ exit_code = 0)

\* A condition the run cannot survive: the folder is no directory, the
\* mode name is invalid, custom mode lacks a template or cannot read one,
\* or a directory the walk has to list cannot be listed.
FatalCause ==
    \/ ~root_is_dir
    \/ to_lowercase(mode) \notin {"xml", "markdown", "custom"}
    \/ /\ to_lowercase(mode) = "custom"
       /\ \/ custom_output_template \in {"none", "unreadable"}
          \/ custom_file_template \in {"none", "unreadable"}
    \/ \E u \in unlistable : ~\E d \in IgnoredDirs : IsPrefix(d, u)

\* C9: the output is written at most once, and only as the last step of a
\* run that has walked the folder and been through every file; a run with
\* a fatal condition never writes it.
C9_WriteOnceAtEnd ==
    /\ output.writes <= 1
    /\ output.writes = 1 =>
          /\ pc = "exited"
          /\ exit_code = 0
          /\ idx = Len(all_files) + 1
          /\ console[Len(console)].msg = "combined"
    /\ FatalCause => output.writes = 0

\* A run that found files and then met a fatal condition has ended.
C9_Witness ==
    /\ pc = "exited"
    /\ FatalCause
    /\ Len(all_files) >= 2
    /\ output.writes = 0

\* C10: on a folder that does not exist the process ends with a non-zero
\* status.
C10_MissingFolderFails ==
    (command = "combine" /\ pc = "exited" /\ ~root_is_dir) => exit_code # 0

====
